---- MODULE Spec2Model ----
(***************************************************************************)
(* Model of main.py: quote lookup (agent fetch, quote-page fetch, optional  *)
(* FX fetch), Stock / Position / Portfolio, and display_portfolio_summary.  *)
(*                                                                         *)
(* Python floats are IEEE-754 binary64.  Every float operation of the code *)
(* is modelled as the exact rational result rounded to the nearest         *)
(* binary64 value, ties to even.  Significands do not fit TLC's integers,  *)
(* so naturals are little-endian sequences of limbs in base 2^15.          *)
(* Only finite, non-negative values are modelled (no inf, nan, subnormal). *)
(***************************************************************************)
EXTENDS Integers, Sequences, FiniteSets, TLC

\* ------------------------------------------------------------------
\* Arbitrary-size naturals (limbs, least significant first; zero is <<>>)
\* ------------------------------------------------------------------
LimbBits == 15
Base == 32768

RECURSIVE Pow2(_)
Pow2(n) == IF n = 0 THEN 1 ELSE 2 * Pow2(n - 1)

RECURSIVE BStrip(_)
BStrip(a) ==
  IF a = <<>> THEN <<>>
  ELSE IF a[Len(a)] = 0 THEN BStrip(SubSeq(a, 1, Len(a) - 1))
  ELSE a

RECURSIVE BigOf(_)
BigOf(n) == IF n = 0 THEN <<>> ELSE <<n % Base>> \o BigOf(n \div Base)

BLimb(a, i) == IF i <= Len(a) THEN a[i] ELSE 0

RECURSIVE BCmpFrom(_, _, _)
BCmpFrom(a, b, i) ==
  IF i = 0 THEN 0
  ELSE IF a[i] < b[i] THEN -1
  ELSE IF a[i] > b[i] THEN 1
  ELSE BCmpFrom(a, b, i - 1)

\* -1, 0, 1 as a < b, a = b, a > b (both stripped)
BCmp(a, b) ==
  IF Len(a) < Len(b) THEN -1
  ELSE IF Len(a) > Len(b) THEN 1
  ELSE BCmpFrom(a, b, Len(a))

RECURSIVE BAddFrom(_, _, _, _)
BAddFrom(a, b, i, carry) ==
  IF i > Len(a) /\ i > Len(b)
  THEN (IF carry = 0 THEN <<>> ELSE <<carry>>)
  ELSE LET s == BLimb(a, i) + BLimb(b, i) + carry
       IN <<s % Base>> \o BAddFrom(a, b, i + 1, s \div Base)

BAdd(a, b) == BAddFrom(a, b, 1, 0)

RECURSIVE BSubFrom(_, _, _, _)
BSubFrom(a, b, i, borrow) ==
  IF i > Len(a) THEN <<>>
  ELSE LET s == a[i] - BLimb(b, i) - borrow
       IN IF s < 0 THEN <<s + Base>> \o BSubFrom(a, b, i + 1, 1)
          ELSE <<s>> \o BSubFrom(a, b, i + 1, 0)

\* a - b for a >= b
BSub(a, b) == BStrip(BSubFrom(a, b, 1, 0))

RECURSIVE BMulSmallFrom(_, _, _, _)
BMulSmallFrom(a, k, i, carry) ==
  IF i > Len(a) THEN (IF carry = 0 THEN <<>> ELSE <<carry>>)
  ELSE LET s == a[i] * k + carry
       IN <<s % Base>> \o BMulSmallFrom(a, k, i + 1, s \div Base)

\* a * k for 0 <= k < Base
BMulSmall(a, k) == IF k = 0 THEN <<>> ELSE BMulSmallFrom(a, k, 1, 0)

RECURSIVE Zeros(_)
Zeros(n) == IF n = 0 THEN <<>> ELSE <<0>> \o Zeros(n - 1)

BShlLimbs(a, n) == IF a = <<>> THEN <<>> ELSE Zeros(n) \o a

RECURSIVE BMulFrom(_, _, _)
BMulFrom(a, b, i) ==
  IF i > Len(b) THEN <<>>
  ELSE BAdd(BShlLimbs(BMulSmall(a, b[i]), i - 1), BMulFrom(a, b, i + 1))

BMul(a, b) == BMulFrom(a, b, 1)

\* a * 2^n
BShl(a, n) == BShlLimbs(BMulSmall(a, Pow2(n % LimbBits)), n \div LimbBits)

RECURSIVE SmallBitLen(_)
SmallBitLen(k) == IF k = 0 THEN 0 ELSE 1 + SmallBitLen(k \div 2)

BitLen(a) ==
  IF a = <<>> THEN 0 ELSE LimbBits * (Len(a) - 1) + SmallBitLen(a[Len(a)])

BIsOdd(a) == a # <<>> /\ a[1] % 2 = 1

RECURSIVE BHalfFrom(_, _)
BHalfFrom(a, i) ==
  IF i > Len(a) THEN <<>>
  ELSE <<(a[i] \div 2) + (BLimb(a, i + 1) % 2) * (Base \div 2)>> \o BHalfFrom(a, i + 1)

\* floor(a / 2)
BHalf(a) == BStrip(BHalfFrom(a, 1))

\* the largest t in acc .. acc + 2^(k+1) - 1 with t * d <= r (binary search
\* for one quotient limb)
RECURSIVE BDigit(_, _, _, _)
BDigit(r, d, k, acc) ==
  IF k < 0 THEN acc
  ELSE IF BCmp(BMulSmall(d, acc + Pow2(k)), r) <= 0
       THEN BDigit(r, d, k - 1, acc + Pow2(k))
       ELSE BDigit(r, d, k - 1, acc)

\* Long division of n by d, most significant limb first: limbs above i are
\* done, q is the quotient so far and r the running remainder.
RECURSIVE BDivFrom(_, _, _, _, _)
RECURSIVE BDivLimb(_, _, _, _, _)
RECURSIVE BDivOut(_, _, _, _, _, _)

BDivFrom(n, d, i, q, r) ==
  IF i = 0 THEN [q |-> BStrip(q), r |-> r]
  ELSE BDivLimb(n, d, i, q, BStrip(<<n[i]>> \o r))

\* r1: the remainder with limb i brought down
BDivLimb(n, d, i, q, r1) ==
  IF BCmp(r1, d) < 0 THEN BDivFrom(n, d, i - 1, <<0>> \o q, r1)
  ELSE BDivOut(n, d, i, q, r1, BDigit(r1, d, LimbBits - 1, 0))

\* t: the quotient limb
BDivOut(n, d, i, q, r1, t) ==
  BDivFrom(n, d, i - 1, <<t>> \o q, BSub(r1, BMulSmall(d, t)))

\* quotient and remainder of n by d > 0
BDivMod(n, d) == BDivFrom(n, d, Len(n), <<>>, <<>>)

\* a * 2
BDouble(a) == BMulSmall(a, 2)

\* ------------------------------------------------------------------
\* Python float (binary64), finite and non-negative: value m * 2^e with
\* 2^52 <= m < 2^53, or FZero.  The representation is canonical, so two
\* floats are equal exactly when their records are equal.
\* ------------------------------------------------------------------
MantBits == 53

FZero == [m |-> <<>>, e |-> 0]

\* q, or q + 1 when the discarded part is more than half a unit (half > 0)
\* or exactly half (half = 0) with q odd
NearestEven(q, half) ==
  IF half > 0 \/ (half = 0 /\ BIsOdd(q)) THEN BAdd(q, <<1>>) ELSE q

\* a rounded significand that reached 2^53 is renormalised
RNCarry(m, e) ==
  IF BitLen(m) > MantBits THEN [m |-> BHalf(m), e |-> e + 1] ELSE [m |-> m, e |-> e]

\* qr: quotient (53 or 54 bits) and remainder of the scaled division by dd
RNDiv(qr, dd, e) ==
  IF BitLen(qr.q) > MantBits
  THEN RNCarry(NearestEven(BHalf(qr.q),
                           IF BIsOdd(qr.q) THEN (IF qr.r = <<>> THEN 0 ELSE 1)
                           ELSE -1),
               e + 1)
  ELSE RNCarry(NearestEven(qr.q, BCmp(BDouble(qr.r), dd)), e)

\* s scales n / d into [2^52, 2^54)
RNShift(n, d, x, s) ==
  IF s >= 0 THEN RNDiv(BDivMod(BShl(n, s), d), d, x - s)
  ELSE RNDiv(BDivMod(n, BShl(d, -s)), BShl(d, -s), x - s)

\* The binary64 nearest to (n / d) * 2^x, ties to even (n, d naturals, d > 0).
RN(n, d, x) ==
  IF n = <<>> THEN FZero
  ELSE RNShift(n, d, x, MantBits - (BitLen(n) - BitLen(d)))

\* float(k) for an int k >= 0
FromInt(k) == RN(BigOf(k), <<1>>, 0)

\* float("<k / 10^p>"): the decimal numeral with p fraction digits
RECURSIVE BPow10(_)
BPow10(p) == IF p = 0 THEN <<1>> ELSE BMulSmall(BPow10(p - 1), 10)

FromDec(k, p) == RN(BigOf(k), BPow10(p), 0)

FMin(i, j) == IF i < j THEN i ELSE j

\* a.m * 2^a.e + b.m * 2^b.e in units of 2^e, e the smaller exponent
FAddAt(a, b, e) == RN(BAdd(BShl(a.m, a.e - e), BShl(b.m, b.e - e)), <<1>>, e)

\* a + b
FAdd(a, b) ==
  IF a.m = <<>> THEN b
  ELSE IF b.m = <<>> THEN a
  ELSE FAddAt(a, b, FMin(a.e, b.e))

\* a * b
FMul(a, b) ==
  IF a.m = <<>> \/ b.m = <<>> THEN FZero
  ELSE RN(BMul(a.m, b.m), <<1>>, a.e + b.e)

\* a / b for b # 0
FDiv(a, b) ==
  IF a.m = <<>> THEN FZero
  ELSE RN(a.m, b.m, a.e - b.e)

\* a < b
FLess(a, b) ==
  IF b.m = <<>> THEN FALSE
  ELSE IF a.m = <<>> THEN TRUE
  ELSE IF a.e # b.e THEN a.e < b.e
  ELSE BCmp(a.m, b.m) < 0

\* qr: quotient and remainder of 100 * x by dd, a power of two
Round2Frac(qr, dd) ==
  RN(NearestEven(qr.q, BCmp(BDouble(qr.r), dd)), BigOf(100), 0)

\* round(x, 2): the exact value of x rounded to 2 decimals (ties to even),
\* then converted back to the nearest float
Round2(x) ==
  IF x.m = <<>> THEN FZero
  ELSE IF x.e >= 0 THEN RN(BShl(BMulSmall(x.m, 100), x.e), BigOf(100), 0)
  ELSE Round2Frac(BDivMod(BMulSmall(x.m, 100), BShl(<<1>>, -x.e)),
                  BShl(<<1>>, -x.e))

\* ------------------------------------------------------------------
\* Exceptions
\* ------------------------------------------------------------------
BAFE == "BrowserAgentFetchError"
ERFE == "ExchangeRateFetchError"
PIFE == "PriceInformationFetchError"

\* exceptions.py: the three error kinds main.py imports
CustomErrors == {BAFE, ERFE, PIFE}

\* exceptions.py is not among the sources: its three classes are taken to
\* derive from Exception directly
CustomErrorBases == {"Exception"}

\* direct base classes of the exception types the code can meet
Parents(t) ==
  CASE t \in {"HTTPError", "ConnectionError"} -> {"RequestException"}
    [] t = "JSONDecodeError" -> {"RequestException", "ValueError"}
    [] t = "RequestException" -> {"Exception"}
    [] t \in {"ValueError", "TypeError", "KeyError", "AttributeError",
              "ZeroDivisionError"} -> {"Exception"}
    [] t \in CustomErrors -> CustomErrorBases
    [] OTHER -> {}

\* isinstance(<exception of type t>, cls)
RECURSIVE IsA(_, _)
IsA(t, cls) == t = cls \/ \E p \in Parents(t) : IsA(p, cls)

NoExc == [type |-> "None", cause |-> "None"]
Exc(t) == [type |-> t, cause |-> "None"]

\* The except clauses of a try statement, in order.  "reraise" re-raises the
\* caught exception; any other value raises that kind, with the caught
\* exception's text as its message.
RECURSIVE Handle(_, _, _)
Handle(handlers, i, exc) ==
  IF i > Len(handlers) THEN exc
  ELSE IF \E c \in handlers[i].catch : IsA(exc.type, c)
       THEN (IF handlers[i].raise = "reraise" THEN exc
             ELSE [type |-> handlers[i].raise, cause |-> exc.type])
       ELSE Handle(handlers, i + 1, exc)

AgentJsonHandlers == << [catch |-> {"ValueError"}, raise |-> BAFE] >>

AgentHandlers ==
  << [catch |-> {"RequestException"}, raise |-> BAFE],
     [catch |-> {BAFE}, raise |-> "reraise"],
     [catch |-> {"Exception"}, raise |-> BAFE] >>

FxHandlers ==
  << [catch |-> {"RequestException"}, raise |-> ERFE],
     [catch |-> {"ValueError", "TypeError"}, raise |-> ERFE],
     [catch |-> {ERFE}, raise |-> "reraise"],
     [catch |-> {"Exception"}, raise |-> ERFE] >>

\* get_price_information without its last clause, except Exception: what
\* the three clauses above it let through
PriceHandlersNoCatchAll ==
  << [catch |-> {"RequestException"}, raise |-> PIFE],
     [catch |-> {"ValueError", "TypeError"}, raise |-> PIFE],
     [catch |-> {PIFE}, raise |-> "reraise"] >>

PriceHandlers ==
  << [catch |-> {"RequestException"}, raise |-> PIFE],
     [catch |-> {"ValueError", "TypeError"}, raise |-> PIFE],
     [catch |-> {PIFE}, raise |-> "reraise"],
     [catch |-> {"Exception"}, raise |-> PIFE] >>

HandlersOf(fn) ==
  CASE fn = "get_random_browser_agent" -> AgentHandlers
    [] fn = "get_fx_to_usd" -> FxHandlers
    [] fn = "get_price_information" -> PriceHandlers

\* An exception raised in the body of frames[1] unwinds through the try
\* statements of the frames, innermost first: what escapes each function.
RECURSIVE Unwind(_, _)
Unwind(frames, exc) ==
  IF frames = <<>> THEN <<>>
  ELSE LET e == Handle(HandlersOf(Head(frames)), 1, exc)
       IN <<[fn |-> Head(frames), exc |-> e]>> \o Unwind(Tail(frames), e)

\* ------------------------------------------------------------------
\* The outside world: what the header service and the quote pages answer
\* ------------------------------------------------------------------
HttpFailures == {"ConnectionError", "HTTPError"}

\* header sets the rotation service hands out
AgentPool == <<"ua1", "ua2">>
NoAgent == "None"

AgentResponses ==
  {[http |-> h, json |-> "object", has_result |-> TRUE, result |-> <<>>] :
      h \in HttpFailures}
  \cup {[http |-> "ok", json |-> j, has_result |-> FALSE, result |-> <<>>] :
      j \in {"malformed", "array", "object"}}
  \cup {[http |-> "ok", json |-> "object", has_result |-> TRUE, result |-> r] :
      r \in {<<>>, AgentPool}}

\* attribute text: a decimal numeral k / 10^p, or something float() rejects
Num(k, p) == [num |-> TRUE, k |-> k, p |-> p]
BadText == [num |-> FALSE, k |-> 0, p |-> 0]

Currencies == {"USD", "CAD"}

QuoteResponses(priceTexts) ==
  {[http |-> h, div |-> FALSE, price |-> BadText, has_currency |-> FALSE,
    currency |-> "USD"] : h \in HttpFailures \cup {"ok"}}
  \cup {[http |-> "ok", div |-> TRUE, price |-> BadText, has_currency |-> TRUE,
         currency |-> "USD"]}
  \cup {[http |-> "ok", div |-> TRUE, price |-> t, has_currency |-> FALSE,
         currency |-> "USD"] : t \in priceTexts}
  \cup {[http |-> "ok", div |-> TRUE, price |-> t, has_currency |-> TRUE,
         currency |-> c] : t \in priceTexts, c \in Currencies}

FxResponses(fxTexts) ==
  {[http |-> h, div |-> FALSE, price |-> BadText] : h \in HttpFailures \cup {"ok"}}
  \cup {[http |-> "ok", div |-> TRUE, price |-> t] : t \in fxTexts \cup {BadText}}

\* ------------------------------------------------------------------
\* get_random_browser_agent
\* ------------------------------------------------------------------
\* key: .env holds SCRAPE_OPS_API_KEY; resp: the service's answer; pick: the
\* index random.choice draws.  sent: requests.get was called.
get_random_browser_agent(key, resp, pick) ==
  LET raw ==
        IF ~key THEN Exc("KeyError")
        ELSE IF resp.http # "ok" THEN Exc(resp.http)
        ELSE IF resp.json = "malformed"
             THEN Handle(AgentJsonHandlers, 1, Exc("JSONDecodeError"))
        ELSE IF resp.json = "array"
             THEN Handle(AgentJsonHandlers, 1, Exc("AttributeError"))
        ELSE LET browser_agents == IF resp.has_result THEN resp.result ELSE <<>>
             IN IF browser_agents # <<>> THEN NoExc ELSE Exc(BAFE)
  IN IF raw = NoExc
     THEN [ok |-> TRUE, val |-> resp.result[pick], exc |-> NoExc, sent |-> key]
     ELSE [ok |-> FALSE, val |-> NoAgent,
           exc |-> Handle(AgentHandlers, 1, raw), sent |-> key]

\* ------------------------------------------------------------------
\* Stock, Position, Portfolio
\* ------------------------------------------------------------------
\* the dict get_price_information returns
price_record(ticker, exchange, price, currency, usd_price) ==
  [ticker |-> ticker, exchange |-> exchange, price |-> price,
   currency |-> currency, usd_price |-> usd_price]

\* price * fx left unrounded
convert_unrounded(price, fx) == FMul(price, fx)

\* usd_price for a currency other than USD
convert(price, fx) == Round2(FMul(price, fx))

\* the dataclass fields before __post_init__ runs
StockDefaults(ticker, exchange) ==
  [ticker |-> ticker, exchange |-> exchange, price |-> FZero,
   currency |-> "USD", usd_price |-> FZero]

post_init(self, price_info) ==
  IF price_info.ticker = self.ticker
  THEN [self EXCEPT !.price = price_info.price,
                    !.currency = price_info.currency,
                    !.usd_price = price_info.usd_price]
  ELSE self

\* a Stock that swallows the failed lookup and keeps the dataclass defaults
Stock_degraded(ticker, exchange, lookup) ==
  [ok |-> TRUE, exc |-> NoExc,
   val |-> IF lookup.ok
           THEN post_init(StockDefaults(ticker, exchange), lookup.val)
           ELSE StockDefaults(ticker, exchange)]

\* Stock(ticker, exchange), given how its call of get_price_information
\* ended: the exception passes through __post_init__ and __init__ uncaught
Stock(ticker, exchange, lookup) ==
  IF lookup.ok
  THEN [ok |-> TRUE, exc |-> NoExc,
        val |-> post_init(StockDefaults(ticker, exchange), lookup.val)]
  ELSE [ok |-> FALSE, exc |-> lookup.exc, val |-> StockDefaults(ticker, exchange)]

Position(stock, quantity) == [stock |-> stock, quantity |-> quantity]

\* position.quantity * position.stock.usd_price
market_value(position) == FMul(FromInt(position.quantity), position.stock.usd_price)

RECURSIVE TotalFrom(_, _, _)
TotalFrom(ps, i, total_value) ==
  IF i > Len(ps) THEN total_value
  ELSE TotalFrom(ps, i + 1, FAdd(total_value, market_value(ps[i])))

\* a total that leaves the first position out
total_without_first(ps) == TotalFrom(ps, 2, FZero)

\* Portfolio.get_total_value
get_total_value(ps) == TotalFrom(ps, 1, FZero)

\* ------------------------------------------------------------------
\* display_portfolio_summary
\* ------------------------------------------------------------------
\* sorted(..., reverse=True) keeps elements with equal keys in their
\* original order: x, a later element, goes after every element whose key
\* is not smaller than its own
RECURSIVE InsertAt(_, _, _)
InsertAt(done, x, j) ==
  IF j > Len(done) THEN Append(done, x)
  ELSE IF FLess(done[j].key, x.key)
       THEN SubSeq(done, 1, j - 1) \o <<x>> \o SubSeq(done, j, Len(done))
       ELSE InsertAt(done, x, j + 1)

\* an unstable insertion: x goes before the elements whose key equals its own
RECURSIVE InsertBeforeTies(_, _, _)
InsertBeforeTies(done, x, j) ==
  IF j > Len(done) THEN Append(done, x)
  ELSE IF ~FLess(x.key, done[j].key)
       THEN SubSeq(done, 1, j - 1) \o <<x>> \o SubSeq(done, j, Len(done))
       ELSE InsertBeforeTies(done, x, j + 1)

insert_unstable(done, x) == InsertBeforeTies(done, x, 1)

insert_desc(done, x) == InsertAt(done, x, 1)

RECURSIVE SortFrom(_, _, _)
SortFrom(keyed, i, done) ==
  IF i > Len(keyed) THEN done
  ELSE SortFrom(keyed, i + 1, insert_desc(done, keyed[i]))

\* the key function is called once per element
sorted_desc(ps) ==
  LET keyed == [i \in 1..Len(ps) |-> [key |-> market_value(ps[i]), item |-> ps[i]]]
  IN SortFrom(keyed, 1, <<>>)

Hundred == FromInt(100)

\* a row whose allocation is the fraction, not the percentage
row_fraction(position, value, portfolio_value) ==
  [ticker |-> position.stock.ticker, exchange |-> position.stock.exchange,
   quantity |-> position.quantity, price |-> position.stock.usd_price,
   market_value |-> value,
   allocation |-> FDiv(value, portfolio_value)]

\* one entry of position_data
row(position, value, portfolio_value) ==
  [ticker |-> position.stock.ticker, exchange |-> position.stock.exchange,
   quantity |-> position.quantity, price |-> position.stock.usd_price,
   market_value |-> value,
   allocation |-> FMul(FDiv(value, portfolio_value), Hundred)]

\* position_data, from the sorted positions (each with its key, the value
\* quantity * usd_price the row computes again)
rows_of(ordered, portfolio_value) ==
  [i \in 1..Len(ordered) |-> row(ordered[i].item, ordered[i].key, portfolio_value)]

\* a display that divides by portfolio_value before it builds any row
display_rows_dividing_first(ps, portfolio_value) ==
  IF portfolio_value = FZero
  THEN [exc |-> Exc("ZeroDivisionError"), rows |-> <<>>, total |-> portfolio_value]
  ELSE [exc |-> NoExc, rows |-> rows_of(sorted_desc(ps), portfolio_value),
        total |-> portfolio_value]

\* Dividing by a portfolio_value of zero raises ZeroDivisionError while the
\* first row is built, before anything is printed.
display_rows(ps, portfolio_value) ==
  IF ps # <<>> /\ portfolio_value = FZero
  THEN [exc |-> Exc("ZeroDivisionError"), rows |-> <<>>, total |-> portfolio_value]
  ELSE [exc |-> NoExc, rows |-> rows_of(sorted_desc(ps), portfolio_value),
        total |-> portfolio_value]

display_portfolio_summary(ps) == display_rows(ps, get_total_value(ps))

\* ------------------------------------------------------------------
\* Bounds and input sets
\* ------------------------------------------------------------------
MaxStocks == 2
MaxPositions == 2
MaxRows == 3

\* Stock(...) arguments
LifeInstruments == {<<"SHOP", "TSE">>}
RichInstruments == {<<"SHOP", "TSE">>, <<"MSFT", "NASDAQ">>}

\* data-last-price texts the pages carry
LifePriceTexts == {Num(10000, 2)}
LifeFxTexts == {Num(75, 2)}
LifeQuantities == {10}

RichPriceTexts == {Num(10000, 2), Num(70, 2), Num(12345, 2)}
RichFxTexts == {Num(75, 2), Num(15, 2), Num(7412, 4)}

\* ------------------------------------------------------------------
\* State
\* ------------------------------------------------------------------
VARIABLES
  apiKey,       \* .env holds SCRAPE_OPS_API_KEY
  pc,           \* where the running call stands; "idle" between operations
  op,           \* the running or most recent operation
  call,         \* its arguments
  agent_price,  \* random_browser_agent of get_price_information
  agent_fx,     \* random_browser_agent of get_fx_to_usd
  quote,        \* price, currency and fx of get_price_information
  log,          \* requests.get calls of the running or most recent operation
  escaped,      \* what each function of that operation raised
  raised,       \* the exception the operation ended with
  ret,          \* the value it returned
  stocks,       \* the Stock objects the program holds
  positions,    \* portfolio.positions
  out,          \* what display_portfolio_summary printed
  last_total    \* what get_total_value returned last, for these positions

vars == <<apiKey, pc, op, call, agent_price, agent_fx, quote, log, escaped,
          raised, ret, stocks, positions, out, last_total>>

NoCall == [fn |-> "None", ticker |-> "", exchange |-> "", keep |-> FALSE]
NoHeaders == [ua |-> NoAgent, from |-> 0]
NoQuote == [price |-> FZero, currency |-> "None", fx |-> FZero]
NoRet == [kind |-> "None"]
NoOut == [shown |-> FALSE, rows |-> <<>>, total |-> FZero]

Init ==
  /\ apiKey \in BOOLEAN
  /\ pc = "idle"
  /\ op = "None"
  /\ call = NoCall
  /\ agent_price = NoHeaders
  /\ agent_fx = NoHeaders
  /\ quote = NoQuote
  /\ log = <<>>
  /\ escaped = <<>>
  /\ raised = NoExc
  /\ ret = NoRet
  /\ stocks = <<>>
  /\ positions = <<>>
  /\ out = NoOut
  /\ last_total = NoRet

\* ------------------------------------------------------------------
\* Stock(ticker, exchange) and get_price_information(ticker, exchange)
\* ------------------------------------------------------------------
\* The call begins; keep: the caller stores the new Stock.
StartCall(fn, inst, keep) ==
  /\ pc = "idle"
  /\ keep => Len(stocks) < MaxStocks
  /\ pc' = "price_agent"
  /\ op' = fn
  /\ call' = [fn |-> fn, ticker |-> inst[1], exchange |-> inst[2], keep |-> keep]
  /\ agent_price' = NoHeaders
  /\ agent_fx' = NoHeaders
  /\ quote' = NoQuote
  /\ log' = <<>>
  /\ escaped' = <<>>
  /\ raised' = NoExc
  /\ ret' = NoRet
  /\ out' = NoOut
  /\ UNCHANGED <<apiKey, stocks, positions, last_total>>

\* get_price_information ended (lookup: ok with its dict, or its exception);
\* the call returns or raises.
Finish(lookup, log1, escaped1, quote1) ==
  LET s == Stock(call.ticker, call.exchange, lookup)
  IN /\ pc' = "idle"
     /\ log' = log1
     /\ escaped' = escaped1
     /\ quote' = quote1
     /\ agent_price' = NoHeaders
     /\ agent_fx' = NoHeaders
     /\ IF call.fn = "Stock"
        THEN /\ raised' = s.exc
             /\ ret' = IF s.ok THEN [kind |-> "Stock", v |-> s.val] ELSE NoRet
             /\ stocks' = IF s.ok /\ call.keep THEN Append(stocks, s.val) ELSE stocks
        ELSE /\ raised' = lookup.exc
             /\ ret' = IF lookup.ok THEN [kind |-> "dict", v |-> lookup.val] ELSE NoRet
             /\ stocks' = stocks
     /\ UNCHANGED <<apiKey, op, call, positions, out, last_total>>

Failed(esc) == [ok |-> FALSE, exc |-> esc[Len(esc)].exc, val |-> NoRet]
Succeeded(record) == [ok |-> TRUE, exc |-> NoExc, val |-> record]

\* the frames an exception leaving get_random_browser_agent unwinds through
OuterFrames ==
  IF pc = "price_agent" THEN <<"get_price_information">>
  ELSE <<"get_fx_to_usd", "get_price_information">>

Request(kind, a, b, headers, ok) ==
  [kind |-> kind, target |-> [a |-> a, b |-> b], headers |-> headers, ok |-> ok]

\* get_random_browser_agent(), called by get_price_information or by
\* get_fx_to_usd
AgentFetch ==
  /\ pc \in {"price_agent", "fx_agent"}
  /\ \E resp \in AgentResponses :
       \E pick \in 1..(IF resp.result = <<>> THEN 1 ELSE Len(resp.result)) :
         LET r == get_random_browser_agent(apiKey, resp, pick)
             log1 == IF r.sent
                     THEN Append(log, Request("agent", "browser-headers", "", 0, r.ok))
                     ELSE log
             got == [ua |-> r.val, from |-> Len(log1)]
         IN IF r.ok
            THEN /\ pc' = IF pc = "price_agent" THEN "price_page" ELSE "fx_page"
                 /\ agent_price' = IF pc = "price_agent" THEN got ELSE agent_price
                 /\ agent_fx' = IF pc = "fx_agent" THEN got ELSE agent_fx
                 /\ log' = log1
                 /\ UNCHANGED <<apiKey, op, call, quote, escaped, raised, ret,
                                stocks, positions, out, last_total>>
            ELSE LET esc == <<[fn |-> "get_random_browser_agent", exc |-> r.exc]>>
                            \o Unwind(OuterFrames, r.exc)
                 IN Finish(Failed(esc), log1, esc, quote)

\* what get_price_information makes of the quote page
quote_page(resp) ==
  IF resp.http # "ok" THEN [exc |-> Exc(resp.http), price |-> FZero]
  ELSE IF ~resp.div THEN [exc |-> Exc(PIFE), price |-> FZero]
  ELSE IF ~resp.price.num THEN [exc |-> Exc("ValueError"), price |-> FZero]
  ELSE IF ~resp.has_currency THEN [exc |-> Exc("KeyError"), price |-> FZero]
  ELSE [exc |-> NoExc, price |-> FromDec(resp.price.k, resp.price.p)]

\* the currency-pair request carrying the agent of the quote request again
fx_headers_reused == agent_price.from

\* the headers each page request carries: the random_browser_agent of the
\* function that issues it
quote_headers == agent_price.from
fx_headers == agent_fx.from

\* get_price_information fetches and reads the quote page
QuoteFetch(priceTexts) ==
  /\ pc = "price_page"
  /\ \E resp \in QuoteResponses(priceTexts) :
       LET q == quote_page(resp)
           log1 == Append(log, Request("quote", call.ticker, call.exchange,
                                       quote_headers, q.exc = NoExc))
       IN IF q.exc # NoExc
          THEN LET esc == Unwind(<<"get_price_information">>, q.exc)
               IN Finish(Failed(esc), log1, esc, quote)
          ELSE IF resp.currency = "USD"
          THEN Finish(Succeeded(price_record(call.ticker, call.exchange, q.price,
                                             resp.currency, q.price)),
                      log1, <<>>,
                      [price |-> q.price, currency |-> resp.currency, fx |-> FZero])
          ELSE /\ pc' = "fx_agent"
               /\ quote' = [price |-> q.price, currency |-> resp.currency, fx |-> FZero]
               /\ log' = log1
               /\ UNCHANGED <<apiKey, op, call, agent_price, agent_fx, escaped,
                              raised, ret, stocks, positions, out, last_total>>

\* what get_fx_to_usd makes of the currency-pair page
fx_page(resp) ==
  IF resp.http # "ok" THEN [exc |-> Exc(resp.http), fx |-> FZero]
  ELSE IF ~resp.div THEN [exc |-> Exc(ERFE), fx |-> FZero]
  ELSE IF ~resp.price.num THEN [exc |-> Exc("ValueError"), fx |-> FZero]
  ELSE [exc |-> NoExc, fx |-> FromDec(resp.price.k, resp.price.p)]

\* get_fx_to_usd fetches and reads the page; get_price_information converts
FxFetch(fxTexts) ==
  /\ pc = "fx_page"
  /\ \E resp \in FxResponses(fxTexts) :
       LET f == fx_page(resp)
           log1 == Append(log, Request("fx", quote.currency, "USD",
                                       fx_headers, f.exc = NoExc))
       IN IF f.exc # NoExc
          THEN LET esc == Unwind(<<"get_fx_to_usd", "get_price_information">>, f.exc)
               IN Finish(Failed(esc), log1, esc, quote)
          ELSE Finish(Succeeded(price_record(call.ticker, call.exchange, quote.price,
                                             quote.currency,
                                             convert(quote.price, f.fx))),
                      log1, <<>>, [quote EXCEPT !.fx = f.fx])

\* ------------------------------------------------------------------
\* Portfolio operations
\* ------------------------------------------------------------------
Idle(name) ==
  /\ pc = "idle"
  /\ op' = name
  /\ call' = NoCall
  /\ quote' = NoQuote
  /\ log' = <<>>
  /\ escaped' = <<>>
  /\ UNCHANGED <<apiKey, pc, agent_price, agent_fx, stocks>>

\* portfolio.positions gains Position(stocks[i], quantity)
NewPosition ==
  /\ Len(positions) < MaxPositions
  /\ \E i \in 1..Len(stocks), quantity \in LifeQuantities :
       positions' = Append(positions, Position(stocks[i], quantity))
  /\ Idle("Position")
  /\ raised' = NoExc
  /\ ret' = NoRet
  /\ out' = NoOut
  /\ last_total' = NoRet

GetTotalValue ==
  /\ Idle("get_total_value")
  /\ ret' = [kind |-> "float", v |-> get_total_value(positions)]
  /\ last_total' = ret'
  /\ raised' = NoExc
  /\ out' = NoOut
  /\ UNCHANGED positions

\* the table and the total line are printed only when no row raised
Printed(d) ==
  IF d.exc = NoExc THEN [shown |-> TRUE, rows |-> d.rows, total |-> d.total]
  ELSE NoOut

Shown(d) ==
  /\ raised' = d.exc
  /\ out' = Printed(d)

\* a display that sorts portfolio.positions in place
items_of(ordered) == [i \in 1..Len(ordered) |-> ordered[i].item]

DisplaySortingInPlace ==
  /\ Idle("display_portfolio_summary")
  /\ Shown(display_portfolio_summary(positions))
  /\ ret' = NoRet
  /\ positions' = items_of(sorted_desc(positions))
  /\ UNCHANGED last_total

Display ==
  /\ Idle("display_portfolio_summary")
  /\ Shown(display_portfolio_summary(positions))
  /\ ret' = NoRet
  /\ UNCHANGED <<positions, last_total>>

\* ------------------------------------------------------------------
\* Specifications
\* ------------------------------------------------------------------
\* the program: stocks are built, positions collected, the portfolio reported
Next ==
  \/ \E inst \in LifeInstruments : StartCall("Stock", inst, TRUE)
  \/ AgentFetch
  \/ QuoteFetch(LifePriceTexts)
  \/ FxFetch(LifeFxTexts)
  \/ NewPosition
  \/ GetTotalValue
  \/ Display

Spec == Init /\ [][Next]_vars

\* price lookups alone, over more prices and rates
NextQuote ==
  \/ \E fn \in {"Stock", "get_price_information"}, inst \in RichInstruments :
       StartCall(fn, inst, FALSE)
  \/ AgentFetch
  \/ QuoteFetch(RichPriceTexts)
  \/ FxFetch(RichFxTexts)

SpecQuote == Init /\ [][NextQuote]_vars

\* reporting alone, over portfolios of USD stocks with these prices and
\* quantities
USDStock(ticker, exchange, k, p) ==
  post_init(StockDefaults(ticker, exchange),
            price_record(ticker, exchange, FromDec(k, p), "USD", FromDec(k, p)))

ReportPositions ==
  { Position(USDStock("AAA", "NYSE", 10, 2), 1),
    Position(USDStock("DDD", "NASDAQ", 5000, 2), 2),
    Position(USDStock("EEE", "NASDAQ", 15000, 2), 1),
    Position(USDStock("FFF", "NASDAQ", 10000, 2), 1),
    Position(USDStock("GGG", "NASDAQ", 7500, 2), 0) }

Portfolios(n) == UNION {[1..k -> ReportPositions] : k \in 0..n}

InitReport ==
  /\ apiKey = TRUE
  /\ pc = "idle"
  /\ op = "None"
  /\ call = NoCall
  /\ agent_price = NoHeaders
  /\ agent_fx = NoHeaders
  /\ quote = NoQuote
  /\ log = <<>>
  /\ escaped = <<>>
  /\ raised = NoExc
  /\ ret = NoRet
  /\ positions \in Portfolios(MaxRows)
  /\ stocks = [i \in 1..Len(positions) |-> positions[i].stock]
  /\ out = NoOut
  /\ last_total = NoRet

NextReport ==
  \/ GetTotalValue
  \/ Display

SpecReport == InitReport /\ [][NextReport]_vars

\* ------------------------------------------------------------------
\* Properties
\* ------------------------------------------------------------------
\* exact values n * 2^e, for comparing a float result with the real number
\* it approximates
ExactOf(x) == [n |-> x.m, e |-> x.e]
ExactInt(k) == [n |-> BigOf(k), e |-> 0]
ExactAt(X, e) == BShl(X.n, X.e - e)
ExactCmp(X, Y) == BCmp(ExactAt(X, FMin(X.e, Y.e)), ExactAt(Y, FMin(X.e, Y.e)))
ExactAdd(X, Y) ==
  [n |-> BAdd(ExactAt(X, FMin(X.e, Y.e)), ExactAt(Y, FMin(X.e, Y.e))),
   e |-> FMin(X.e, Y.e)]
ExactValue(position) ==
  [n |-> BMul(BigOf(position.quantity), position.stock.usd_price.m),
   e |-> position.stock.usd_price.e]

RECURSIVE ExactTotalFrom(_, _, _)
ExactTotalFrom(ps, i, acc) ==
  IF i > Len(ps) THEN acc
  ELSE ExactTotalFrom(ps, i + 1, ExactAdd(acc, ExactValue(ps[i])))

\* the real-number sum of quantity * usd_price
ExactTotal(ps) == ExactTotalFrom(ps, 1, ExactInt(0))

BAbsDiff(a, b) == IF BCmp(a, b) < 0 THEN BSub(b, a) ELSE BSub(a, b)

\* |X - Y| <= Y / 10^9
NearAt(a, b) == BCmp(BMul(BAbsDiff(a, b), BPow10(9)), b) <= 0
Near(X, Y) == NearAt(ExactAt(X, FMin(X.e, Y.e)), ExactAt(Y, FMin(X.e, Y.e)))

Permuted(ps, src) == [i \in 1..Len(ps) |-> ps[src[i]]]
Orders(ps) == Permutations(1..Len(ps))

RECURSIVE SumAllocFrom(_, _, _)
SumAllocFrom(rows, i, acc) ==
  IF i > Len(rows) THEN acc
  ELSE SumAllocFrom(rows, i + 1, FAdd(acc, rows[i].allocation))

\* sum(row allocations), added up as floats from 0
SumAlloc(rows) == SumAllocFrom(rows, 1, FZero)

Lookups == {"Stock", "get_price_information"}
Reports == {"get_total_value", "display_portfolio_summary"}
DisplayDone == pc = "idle" /\ op = "display_portfolio_summary"
TotalDone == pc = "idle" /\ op = "get_total_value" /\ ret # NoRet

\* C1: displaying a portfolio whose total value is zero raises nothing and
\* prints every row with an allocation of 0.  (The code divides by the
\* total: this is the statement the model refutes.)
C1_ZeroTotalDisplayed ==
  (DisplayDone /\ positions # <<>> /\ get_total_value(positions) = FZero) =>
    /\ raised = NoExc
    /\ out.shown
    /\ Len(out.rows) = Len(positions)
    /\ \A i \in 1..Len(out.rows) : out.rows[i].allocation = FZero

\* what one step may do to the Stock objects of the program
C2_StockStep ==
  /\ (pc # "idle" /\ pc' = "idle" /\ op' = "Stock" /\ raised' # NoExc) =>
       /\ raised'.type = PIFE
       /\ ret' = NoRet
       /\ stocks' = stocks
  /\ (pc # "idle" /\ pc' = "idle" /\ op' = "Stock" /\ ret' # NoRet) =>
       /\ raised' = NoExc
       /\ log' # <<>>
       /\ \A i \in 1..Len(log') : log'[i].ok
       /\ ret'.v.ticker = call.ticker
       /\ ret'.v.exchange = call.exchange
       /\ ret'.v.price = quote'.price
       /\ ret'.v.currency = quote'.currency
       /\ ret'.v.usd_price = IF quote'.currency = "USD" THEN quote'.price
                             ELSE convert(quote'.price, quote'.fx)
  /\ (stocks' # stocks) =>
       /\ pc # "idle" /\ pc' = "idle" /\ op' = "Stock"
       /\ ret' # NoRet
       /\ stocks' = Append(stocks, ret'.v)
  /\ \A i \in 1..Len(positions') :
       \E j \in 1..Len(stocks') : positions'[i].stock = stocks'[j]

OwnError(fn) ==
  CASE fn = "get_random_browser_agent" -> BAFE
    [] fn = "get_fx_to_usd" -> ERFE
    [] fn = "get_price_information" -> PIFE

C4_UsdPrice ==
  (pc = "idle" /\ op \in Lookups /\ ret # NoRet) =>
    /\ ret.v.price = quote.price
    /\ ret.v.currency = quote.currency
    /\ IF quote.currency = "USD"
       THEN ret.v.usd_price = ret.v.price /\ Len(log) = 2
       ELSE /\ ret.v.usd_price = Round2(FMul(ret.v.price, quote.fx))
            /\ Len(log) = 4
            /\ log[4].kind = "fx" /\ log[4].ok
            /\ log[4].target = [a |-> quote.currency, b |-> "USD"]

\* C4 witness: 100.00 CAD at 0.75 gives 75.00
C4_HundredCad ==
  /\ pc = "idle" /\ ret # NoRet
  /\ ret.v.currency = "CAD"
  /\ ret.v.price = FromInt(100)
  /\ quote.fx = FromDec(75, 2)
  /\ ret.v.usd_price = FromInt(75)
SameListing(r, position) ==
  /\ r.ticker = position.stock.ticker
  /\ r.exchange = position.stock.exchange
  /\ r.quantity = position.quantity
  /\ r.price = position.stock.usd_price
  /\ r.market_value = market_value(position)

\* C6: the printed rows are a permutation of the portfolio's positions, in
\* order of non-increasing market value (quantity * usd_price), positions of
\* equal market value in their original relative order.
C6_RowsSortedStable ==
  (DisplayDone /\ out.shown) =>
    /\ Len(out.rows) = Len(positions)
    /\ \A i \in 1..(Len(out.rows) - 1) :
         ~FLess(out.rows[i].market_value, out.rows[i + 1].market_value)
    /\ \E src \in Orders(positions) :
         /\ \A i \in 1..Len(positions) : SameListing(out.rows[i], positions[src[i]])
         /\ \A i, j \in 1..Len(positions) :
              (i < j /\ out.rows[i].market_value = out.rows[j].market_value)
                => src[i] < src[j]

\* C6 witness: two listings of equal market value were moved ahead of a
\* smaller one and kept their order
C6_TieKeptInOrder ==
  /\ DisplayDone /\ out.shown
  /\ Len(positions) = 3
  /\ positions[1].stock.ticker = "AAA"
  /\ positions[2].stock.ticker = "DDD"
  /\ positions[3].stock.ticker = "FFF"
  /\ out.rows[1].ticker = "DDD"
  /\ out.rows[2].ticker = "FFF"
  /\ out.rows[3].ticker = "AAA"

C8_EmptyPortfolio ==
  /\ (TotalDone /\ positions = <<>>) => ret.v = FZero
  /\ (DisplayDone /\ positions = <<>>) =>
       /\ raised = NoExc
       /\ out = [shown |-> TRUE, rows |-> <<>>, total |-> FZero]

\* C8 witness: the empty portfolio was displayed
C8_EmptyDisplayed ==
  /\ DisplayDone
  /\ positions = <<>>
  /\ out.shown

\* what a step that is a report leaves alone
C9_ReportStep ==
  (op' \in Reports) =>
    /\ stocks' = stocks
    /\ positions' = positions
    /\ log' = <<>>
    /\ pc' = "idle"
    /\ (op' = "get_total_value" /\ last_total # NoRet) => ret' = last_total

\* C9: get_total_value and display_portfolio_summary leave every Stock and
\* the list of positions as they were and send no request; get_total_value
\* returns what it returned before, for as long as the positions are the
\* same.
C9_ReportsReadOnly == [][C9_ReportStep]_vars

\* C9 witness: a total was returned for two positions, equal to the one
\* remembered, and no request was sent
C9_TotalAgain ==
  /\ TotalDone
  /\ Len(positions) = 2
  /\ last_total = ret
  /\ log = <<>>

RequestOrder == <<"agent", "quote", "agent", "fx">>

\* C10: the requests of one price lookup are, in this order, an agent fetch,
\* the quote page under that agent and, exactly when the currency read is
\* not USD, a second agent fetch and the currency-pair page under that
\* second agent; each at most once, and none after one that failed.
C10_RequestOrder ==
  (op \in Lookups) =>
    /\ Len(log) <= 4
    /\ \A i \in 1..Len(log) : log[i].kind = RequestOrder[i]
    /\ \A i \in 1..(Len(log) - 1) : log[i].ok
    /\ Len(log) >= 2 =>
         /\ log[2].headers = 1
         /\ log[2].target = [a |-> call.ticker, b |-> call.exchange]
    /\ Len(log) >= 3 => (log[2].ok /\ quote.currency \notin {"USD", "None"})
    /\ Len(log) = 4 =>
         /\ log[4].headers = 3
         /\ log[4].target = [a |-> quote.currency, b |-> "USD"]
    /\ pc = "price_agent" => log = <<>>
    /\ pc = "price_page" => Len(log) = 1 /\ log[1].ok
    /\ pc = "fx_agent" => Len(log) = 2 /\ log[2].ok
    /\ pc = "fx_page" => Len(log) = 3 /\ log[3].ok
    /\ (pc = "idle" /\ raised = NoExc) =>
         /\ Len(log) = (IF quote.currency = "USD" THEN 2 ELSE 4)
         /\ log[Len(log)].ok
    /\ (pc = "idle" /\ raised # NoExc) =>
         (IF log = <<>> THEN ~apiKey ELSE ~log[Len(log)].ok)

\* C10 witness: a lookup in CAD ended well after its four requests
C10_FourRequests ==
  /\ pc = "idle" /\ op \in Lookups
  /\ raised = NoExc
  /\ quote.currency = "CAD"
  /\ Len(log) = 4
  /\ log[3].kind = "agent" /\ log[4].headers = 3
====
